---- MODULE Spec2Model ----
(***************************************************************************)
(* Handshake and authentication phase of the go-mysql-pure client.        *)
(*                                                                         *)
(* Packet framer (ReadPacket, ReadPacketHeader, UnpackNumber), the         *)
(* greeting decoder (Connection.readInitPacket), the authentication        *)
(* response (Connection.sendAuth), the result read (Connection.readResult) *)
(* and the session operations Open and Close.                              *)
(*                                                                         *)
(* Bytes are integers 0..255, byte slices and strings are sequences of     *)
(* bytes.  The server's byte stream is a sequence of chunks: one chunk is  *)
(* what one Read of the socket returns.  A Read of the socket after the    *)
(* last chunk returns (0, EOF).                                            *)
(*                                                                         *)
(* Specifications: Spec (one Open on a new Connection, and Close),         *)
(* SpecFramer (the framer applied on its own), SpecReopen (Open called     *)
(* again on the same Connection), SpecConcurrent (two callers of Open)     *)
(* and SpecMain (the example program).                                     *)
(***************************************************************************)
EXTENDS Integers, Sequences, FiniteSets, TLC

VARIABLES
    pc,            \* where Open stands: "idle" before it, "returned" after it
    param,         \* Connection.param (DBName, Username, Password)
    conn,          \* Connection.conn: "nil", "open" or "closed"
    rd,            \* Connection.reader: [buf: bytes buffered, wire: chunks to come]
    wr,            \* Connection.writer: bytes buffered, not yet flushed
    sent,          \* bytes the socket has taken from the client
    reply,         \* chunks the server sends once it has the authentication packet
    c,             \* the greeting fields of Connection
    packetHeader,  \* readInitPacket's packetHeader
    resultHeader,  \* readResult's packetHeader
    auth,          \* sendAuth's locals: clientFlags, cipher, password, byteLen, byteArr, pos
    err,           \* the error of the last step / the value Open returned
    trace,         \* the steps run so far, each with its error
    srv,           \* what the server put on the wire (greeting header and fields)
    fr,            \* the framer's inputs and results when it is applied on its own
    orphans,       \* sockets this Connection dialed, still open, that c.conn no longer names
    other          \* a second caller of Open while it does not run: its position and locals

vars == <<pc, param, conn, rd, wr, sent, reply, c, packetHeader, resultHeader, auth, err, trace, srv,
          fr, orphans, other>>

----------------------------------------------------------------------------
(* Bounds of the model *)

\* chunk sizes 1..MaxChunk are tried, and delivery in one piece
MaxChunk == 3
\* ReadPacket is applied to destinations of 1..MaxRead bytes
MaxRead == 20
\* the caller calls Close at most MaxClose times
MaxClose == 2
\* UnpackNumber is applied to n bytes with up to MaxExtra bytes behind them
MaxExtra == 1
\* Open is called at most MaxOpen times on one Connection
MaxOpen == 2
\* two callers of Open take turns at most MaxSwitch times
MaxSwitch == 2

----------------------------------------------------------------------------
(* Sequences of bytes *)

Min(a, b) == IF a < b THEN a ELSE b

Take(s, n) == SubSeq(s, 1, Min(n, Len(s)))

Drop(s, n) == SubSeq(s, n + 1, Len(s))

\* make([]byte, n)
Zeros(n) == [i \in 1..n |-> 0]

\* the bytes of s cut into chunks of k bytes (the last one may be shorter)
RECURSIVE Chunks(_, _)
Chunks(s, k) ==
    IF s = <<>> THEN <<>>
    ELSE <<Take(s, k)>> \o Chunks(Drop(s, k), k)

\* the chunks put back together
RECURSIVE Flatten(_)
Flatten(cs) == IF cs = <<>> THEN <<>> ELSE Head(cs) \o Flatten(Tail(cs))

\* every byte the reader can still return
Remaining(r) == r.buf \o Flatten(r.wire)

\* index of the first byte b in s, 0 when there is none
RECURSIVE IndexByteFrom(_, _, _)
IndexByteFrom(s, b, i) ==
    IF i > Len(s) THEN 0
    ELSE IF s[i] = b THEN i
    ELSE IndexByteFrom(s, b, i + 1)

IndexByte(s, b) == IndexByteFrom(s, b, 1)

\* bitwise or of two naturals
RECURSIVE BitOr(_, _)
BitOr(a, b) ==
    IF a = 0 THEN b
    ELSE IF b = 0 THEN a
    ELSE (IF a % 2 = 1 \/ b % 2 = 1 THEN 1 ELSE 0) + 2 * BitOr(a \div 2, b \div 2)

----------------------------------------------------------------------------
(* bufio.Reader over the socket *)

NoReader == [buf |-> <<>>, wire |-> <<>>]

\* rd.Read(p) with len(p) = k: when nothing is buffered, ONE read of the
\* socket fills the buffer; then as much as fits is copied.  It never reads
\* the socket twice and never waits for k bytes.
BufRead(r, k) ==
    IF k = 0 THEN [n |-> 0, err |-> "nil", data |-> <<>>, r |-> r]
    ELSE IF r.buf = <<>> /\ r.wire = <<>>
         THEN [n |-> 0, err |-> "EOF", data |-> <<>>, r |-> r]
    ELSE LET f == IF r.buf = <<>>
                  THEN [buf |-> Head(r.wire), wire |-> Tail(r.wire)]
                  ELSE r
             n == Min(k, Len(f.buf))
         IN  [n |-> n, err |-> "nil", data |-> Take(f.buf, n),
              r |-> [buf |-> Drop(f.buf, n), wire |-> f.wire]]

----------------------------------------------------------------------------
(* Packet framer *)

\* the for loop of ReadPacket; i is the loop variable (0-based, as in the code)
RECURSIVE ReadPacketLoop(_, _, _)
ReadPacketLoop(r, byteArr, i) ==
    IF ~(i < Len(byteArr)) THEN [err |-> "nil", byteArr |-> byteArr, r |-> r]
    ELSE LET got == BufRead(r, Len(byteArr) - i)
             arr == [j \in 1..Len(byteArr) |->
                        IF j > i /\ j <= i + got.n THEN got.data[j - i] ELSE byteArr[j]]
         IN  IF got.err # "nil"
             THEN [err |-> got.err, byteArr |-> arr, r |-> got.r]
             ELSE ReadPacketLoop(got.r, arr, (i + got.n) + 1)

ReadPacket(r, byteArr) == ReadPacketLoop(r, byteArr, 0)

\* A uint64 is kept as its 8 bytes, least significant first: the numbers of
\* UnpackNumber do not fit the integers of the model checker, and every
\* shift UnpackNumber makes is by whole bytes.
Zero64 == Zeros(8)

\* uint64(b) << shift, for a byte b and a shift of whole bytes; a shift of 64
\* or more leaves nothing
ShiftLeft64(b, shift) ==
    [j \in 1..8 |-> IF shift < 64 /\ j = (shift \div 8) + 1 THEN b ELSE 0]

\* x | y
Or64(x, y) == [j \in 1..8 |-> BitOr(x[j], y[j])]

\* the value of a uint64 that is below 2^24 (a packet length)
Uint24(x) == x[1] + 256 * x[2] + 65536 * x[3]

\* num |= uint64(byteArr[i]) << (i * 8), for i = 0 .. n-1; i is a uint8, so
\* i * 8 is taken modulo 256
RECURSIVE UnpackNumberLoop(_, _, _, _)
UnpackNumberLoop(byteArr, n, i, num) ==
    IF ~(i < n) THEN num
    ELSE UnpackNumberLoop(byteArr, n, i + 1,
                          Or64(num, ShiftLeft64(byteArr[i + 1], (i * 8) % 256)))

\* UnpackNumber with the bytes taken most significant first
RECURSIVE UnpackNumberBigEndianLoop(_, _, _, _)
UnpackNumberBigEndianLoop(byteArr, n, i, num) ==
    IF ~(i < n) THEN num
    ELSE UnpackNumberBigEndianLoop(byteArr, n, i + 1,
                                   Or64(num, ShiftLeft64(byteArr[i + 1], ((n - 1 - i) * 8) % 256)))

UnpackNumberBigEndian(byteArr, n) == UnpackNumberBigEndianLoop(byteArr, n, 0, Zero64)

\* UnpackNumber with a loop that runs once too often (i <= n)
RECURSIVE UnpackNumberOneMoreLoop(_, _, _, _)
UnpackNumberOneMoreLoop(byteArr, n, i, num) ==
    IF ~(i <= n) THEN num
    ELSE UnpackNumberOneMoreLoop(byteArr, n, i + 1,
            Or64(num, ShiftLeft64(IF i + 1 <= Len(byteArr) THEN byteArr[i + 1] ELSE 0,
                                  (i * 8) % 256)))

UnpackNumberOneMore(byteArr, n) == UnpackNumberOneMoreLoop(byteArr, n, 0, Zero64)

UnpackNumber(byteArr, n) == UnpackNumberLoop(byteArr, n, 0, Zero64)

NoHeader == [Len |-> 0, Seq |-> 0]

ReadPacketHeader(r) ==
    LET got == ReadPacket(r, Zeros(4))
    IN  IF got.err # "nil"
        THEN [err |-> got.err, hdr |-> NoHeader, byteArr |-> got.byteArr, r |-> got.r]
        ELSE [err |-> "nil",
              hdr |-> [Len |-> Uint24(UnpackNumber(got.byteArr, 3)), Seq |-> got.byteArr[4]],
              byteArr |-> got.byteArr, r |-> got.r]

\* the four header bytes as sendAuth writes them
HeaderBytes(byteLen, seq) ==
    <<byteLen % 256, (byteLen \div 256) % 256, (byteLen \div 65536) % 256, seq>>

----------------------------------------------------------------------------
(* Reads the greeting decoder makes besides ReadPacket *)

\* io.ReadFull, which binary.Read calls: Read until n bytes have arrived;
\* EOF when none arrived, "unexpected EOF" when some did
RECURSIVE ReadFullLoop(_, _, _)
ReadFullLoop(r, n, acc) ==
    IF Len(acc) >= n THEN [err |-> "nil", data |-> acc, r |-> r]
    ELSE LET got == BufRead(r, n - Len(acc))
         IN  IF got.err # "nil"
             THEN [err |-> IF acc = <<>> THEN "EOF" ELSE "unexpected EOF",
                   data |-> acc, r |-> got.r]
             ELSE ReadFullLoop(got.r, n, acc \o got.data)

ReadFull(r, n) == ReadFullLoop(r, n, <<>>)

\* binary.LittleEndian.Uint16 / Uint32 of the bytes read
RECURSIVE LittleEndian(_)
LittleEndian(bs) ==
    IF bs = <<>> THEN 0 ELSE BitOr(Head(bs), 256 * LittleEndian(Tail(bs)))

\* binary.Read(c.reader, binary.LittleEndian, &field) for a field of n bytes:
\* the field is assigned only when all n bytes arrived
BinaryRead(r, n, old) ==
    LET got == ReadFull(r, n)
    IN  [err |-> got.err,
         val |-> IF got.err = "nil" THEN LittleEndian(got.data) ELSE old,
         r |-> got.r]

\* c.reader.ReadString(delim): everything up to AND INCLUDING the first delim;
\* when the stream ends first, what was read and EOF
RECURSIVE ReadStringLoop(_, _)
ReadStringLoop(r, delim) ==
    LET i == IndexByte(r.buf, delim)
    IN  IF i > 0
        THEN [err |-> "nil", data |-> Take(r.buf, i),
              r |-> [buf |-> Drop(r.buf, i), wire |-> r.wire]]
        ELSE IF r.wire = <<>>
        THEN [err |-> "EOF", data |-> r.buf, r |-> [buf |-> <<>>, wire |-> <<>>]]
        ELSE ReadStringLoop([buf |-> r.buf \o Head(r.wire), wire |-> Tail(r.wire)], delim)

ReadString(r, delim) == ReadStringLoop(r, delim)

\* IgnoreBytes(c.reader, n): discards the next n bytes of the stream; it fails
\* when the stream ends before n bytes were discarded
IgnoreBytes(r, n) ==
    LET got == ReadFull(r, n)
    IN  [err |-> got.err, r |-> got.r]

----------------------------------------------------------------------------
(* Constants of connection.go *)

MAX_PACKET_SIZE == 16777216
CLIENT_LONG_PASSWORD == 1
CLIENT_CONNECT_WITH_DB == 8
CLIENT_PROTOCOL_41 == 512
CLIENT_SECURE_CONNECTION == 32768
CLIENT_MULTI_STATEMENTS == 65536
CLIENT_MULTI_RESULTS == 131072

\* "mysql_native_password"
NativePassword ==
    <<109, 121, 115, 113, 108, 95, 110, 97, 116, 105, 118, 101, 95,
      112, 97, 115, 115, 119, 111, 114, 100>>

----------------------------------------------------------------------------
(* The server: the bytes it puts on the wire *)

LE16(v) == <<v % 256, (v \div 256) % 256>>

LE32(v) == <<v % 256, (v \div 256) % 256, (v \div 65536) % 256, (v \div 16777216) % 256>>

\* The fields of the greeting the server encodes.  The texts are without
\* their terminators.  Every byte is below 128, so that four of them taken
\* anywhere in the stream are a number TLC can hold.
Greeting ==
    [ProtocolVersion |-> 10,
     ServerVersion |-> <<53, 46, 55, 46, 48>>,                    \* "5.7.0"
     ConnectionID |-> 7,
     ScramblePart1 |-> <<11, 12, 13, 14, 15, 16, 17, 18>>,
     ServerCapabilitiesPart1 |-> 30591,
     ServerDefaultCollation |-> 33,
     StatusFlags |-> 2,
     ServerCapabilitiesPart2 |-> 8575,
     ScramblePart2 |-> <<21, 22, 23, 24, 25, 26, 27, 28, 29, 30, 31, 32>>,
     AuthenticationPluginName |-> NativePassword]

\* the payload of the initial handshake packet, protocol version 10
GreetingPayload(g) ==
    <<g.ProtocolVersion>> \o g.ServerVersion \o <<0>>
    \o LE32(g.ConnectionID)
    \o g.ScramblePart1 \o <<0>>
    \o LE16(g.ServerCapabilitiesPart1)
    \o <<g.ServerDefaultCollation>>
    \o LE16(g.StatusFlags)
    \o LE16(g.ServerCapabilitiesPart2)
    \o <<21>> \o Zeros(10)
    \o g.ScramblePart2 \o <<0>>
    \o g.AuthenticationPluginName \o <<0>>

\* offsets in the payload where the two texts end (their terminators)
VersionEnd(g) == 1 + Len(g.ServerVersion) + 1

PluginEnd(g) == Len(GreetingPayload(g))

\* a packet: header, payload
Packet(len, seq, payload) == HeaderBytes(len, seq) \o payload

\* What a server sends first.  Besides the well-formed greeting: a greeting
\* with another sequence number, a greeting whose header states a length that
\* ends inside a text (the bytes after it belong to whatever follows), and
\* every stream that ends early.
ServerStreams ==
    LET p == GreetingPayload(Greeting)
        whole == Packet(Len(p), 0, p)
    IN  {[hdrLen |-> l, hdrSeq |-> s, bytes |-> Packet(l, s, p)] :
            l \in {Len(p), VersionEnd(Greeting) - 2, PluginEnd(Greeting) - 3},
            s \in {0, 1}}
        \cup
        {[hdrLen |-> Len(p), hdrSeq |-> 0, bytes |-> Take(whole, n)] :
            n \in 0..(Len(whole) - 1)}

\* the server's answers to the authentication packet: OK, or ERR 1045
OKPacket == Packet(7, 2, <<0, 0, 0, 2, 0, 0, 0>>)

ERRPacket == Packet(9, 2, <<255, 21, 4, 35, 50, 56, 48, 48, 48>>)

\* an OK packet that carries sequence number 3 where 2 is due
OKPacketOutOfSequence == Packet(7, 3, <<0, 0, 0, 2, 0, 0, 0>>)

Replies == {OKPacket, ERRPacket, OKPacketOutOfSequence}

\* sizes of the pieces the socket delivers; Whole is larger than any stream
Whole == 4096

ChunkSizes == (1..MaxChunk) \cup {Whole}

----------------------------------------------------------------------------
(* The session: NewConnection, Open, Close *)

NoFields ==
    [ProtocolVersion |-> 0,
     ServerVersion |-> <<>>,
     ConnectionID |-> 0,
     ScramblePart1 |-> <<>>,
     ServerCapabilitiesPart1 |-> 0,
     ServerDefaultCollation |-> 0,
     StatusFlags |-> 0,
     ServerCapabilitiesPart2 |-> 0,
     ScramblePart2 |-> <<>>,
     AuthenticationPluginName |-> <<>>]

NoAuth ==
    [ran |-> FALSE, panic |-> FALSE, clientFlags |-> 0, cipher |-> <<>>, password |-> <<>>,
     byteLen |-> 0, byteArr |-> <<>>, pos |-> 0]

NoServer == [hdrLen |-> 0, hdrSeq |-> 0, bytes |-> <<>>, chunk |-> 0, reply |-> <<>>]

NoFramer == [op |-> "none", n |-> 0, len |-> 0, seq |-> 0, src |-> <<>>, chunk |-> 0,
             dst |-> <<>>, hdr |-> NoHeader, num |-> Zero64, err |-> "nil"]

\* the parameters a caller may give NewConnection: "db" or no database,
\* "pw" or no password
Params ==
    {[DBName |-> d, Username |-> <<117>>, Password |-> w] :
        d \in {<<>>, <<100, 98>>}, w \in {<<>>, <<112, 119>>}}

\* a caller that has not called Open yet: the locals of Open and of the
\* functions it calls, and how often the callers have taken turns
NoCaller == [pc |-> "idle", err |-> "nil", packetHeader |-> NoHeader,
             resultHeader |-> NoHeader, auth |-> NoAuth, switches |-> 0]

\* NewConnection(param)
Init ==
    /\ pc = "idle"
    /\ param \in Params
    /\ conn = "nil"
    /\ rd = NoReader
    /\ wr = <<>>
    /\ sent = <<>>
    /\ reply = <<>>
    /\ c = NoFields
    /\ packetHeader = NoHeader
    /\ resultHeader = NoHeader
    /\ auth = NoAuth
    /\ err = "nil"
    /\ trace = <<>>
    /\ srv = NoServer
    /\ fr = NoFramer
    /\ orphans = 0
    /\ other = NoCaller

\* a step of Open has run, with error e
Ran(step, e) == Append(trace, [step |-> step, err |-> e])

\* Open: c.conn, err = net.Dial(...); on success the reader and the writer
\* are made over the new socket.  The assignment replaces whatever c.conn
\* named: a socket still open that it named is closed by nobody.  The
\* server (one of streams, answering with one of replies) and the way its
\* bytes arrive (in pieces of one of the sizes) are chosen here.
DialStep(streams, sizes, replies) ==
    /\ UNCHANGED <<param, c, packetHeader, resultHeader, auth, fr, other>>
    /\ orphans' = IF conn = "open" THEN orphans + 1 ELSE orphans
    /\ \/ /\ conn' = "nil"
          /\ err' = "dial error"
          /\ trace' = Ran("Dial", "dial error")
          /\ pc' = "returned"
          /\ UNCHANGED <<rd, wr, sent, reply, srv>>
       \/ \E s \in streams, k \in sizes, a \in replies :
          /\ conn' = "open"
          /\ rd' = [buf |-> <<>>, wire |-> Chunks(s.bytes, k)]
          /\ wr' = <<>>
          /\ sent' = <<>>
          /\ reply' = Chunks(a, k)
          /\ srv' = [hdrLen |-> s.hdrLen, hdrSeq |-> s.hdrSeq, bytes |-> s.bytes,
                     chunk |-> k, reply |-> a]
          /\ err' = "nil"
          /\ trace' = Ran("Dial", "nil")
          /\ pc' = "readInitPacket"

\* Open called once, on a new Connection, against every server
Dial ==
    /\ pc = "idle"
    /\ DialStep(ServerStreams, ChunkSizes, Replies)

\* Close calls seen so far
Closes == Cardinality({i \in DOMAIN trace : trace[i].step = "Close"})

\* Close: return c.conn.Close().  On a nil c.conn the call is a nil
\* dereference; on a socket already closed it returns an error.  The caller
\* calls it before Open or after Open has returned.
Close ==
    /\ pc \in {"idle", "returned"}
    /\ Closes < MaxClose
    /\ UNCHANGED <<param, rd, wr, sent, reply, c, packetHeader, resultHeader, auth, err, srv, fr,
                 orphans, other>>
    /\ IF conn = "nil"
       THEN /\ pc' = "panic"
            /\ trace' = Ran("Close", "panic")
            /\ UNCHANGED conn
       ELSE /\ trace' = Ran("Close", IF conn = "open" THEN "nil"
                                     ELSE "use of closed network connection")
            /\ conn' = "closed"
            /\ UNCHANGED pc

----------------------------------------------------------------------------
(* readInitPacket, one action per read, in the order of the code *)

\* what every step of readInitPacket leaves alone
InitPacketFrame ==
    UNCHANGED <<param, conn, wr, sent, reply, resultHeader, auth, srv, fr, orphans, other>>

\* Continue that goes on to the next step whatever e is
ContinueWhatever(e, next) ==
    /\ err' = e
    /\ pc' = next

\* "if err != nil { return err }" after a step that set err to e; Open
\* returns the error at once
Continue(e, next) ==
    /\ err' = e
    /\ pc' = IF e # "nil" THEN "returned" ELSE next

\* ReadInitHeader without the sequence number check
ReadInitHeaderUnchecked ==
    /\ pc = "readInitPacket"
    /\ InitPacketFrame
    /\ UNCHANGED c
    /\ LET got == ReadPacketHeader(rd)
       IN  /\ rd' = got.r
           /\ packetHeader' = got.hdr
           /\ trace' = Ran("ReadPacketHeader", got.err)
           /\ Continue(got.err, "ProtocolVersion")

\* packetHeader, err = ReadPacketHeader(c.reader); the sequence number check
ReadInitHeader ==
    /\ pc = "readInitPacket"
    /\ InitPacketFrame
    /\ UNCHANGED c
    /\ LET got == ReadPacketHeader(rd)
       IN  /\ rd' = got.r
           /\ packetHeader' = got.hdr
           /\ IF got.err # "nil"
              THEN /\ trace' = Ran("ReadPacketHeader", got.err)
                   /\ Continue(got.err, "ProtocolVersion")
              ELSE IF got.hdr.Seq # 0
              THEN /\ trace' = Ran("ReadPacketHeader", "Unexpected Sequence Number")
                   /\ Continue("Unexpected Sequence Number", "ProtocolVersion")
              ELSE /\ trace' = Ran("ReadPacketHeader", "nil")
                   /\ Continue("nil", "ProtocolVersion")

\* a field read with binary.Read
ReadNumber(at, field, n, next) ==
    /\ pc = at
    /\ InitPacketFrame
    /\ UNCHANGED packetHeader
    /\ LET got == BinaryRead(rd, n, c[field])
       IN  /\ rd' = got.r
           /\ c' = [c EXCEPT ![field] = got.val]
           /\ trace' = Ran(field, got.err)
           /\ Continue(got.err, next)

\* a field read with ReadString: the field is assigned whatever came back
ReadText(at, field, next) ==
    /\ pc = at
    /\ InitPacketFrame
    /\ UNCHANGED packetHeader
    /\ LET got == ReadString(rd, 0)
       IN  /\ rd' = got.r
           /\ c' = [c EXCEPT ![field] = got.data]
           /\ trace' = Ran(field, got.err)
           /\ Continue(got.err, next)

\* a field made with make([]byte, n) and filled by ReadPacket
ReadBlock(at, field, n, next) ==
    /\ pc = at
    /\ InitPacketFrame
    /\ UNCHANGED packetHeader
    /\ LET got == ReadPacket(rd, Zeros(n))
       IN  /\ rd' = got.r
           /\ c' = [c EXCEPT ![field] = got.byteArr]
           /\ trace' = Ran(field, got.err)
           /\ Continue(got.err, next)

\* IgnoreBytes(c.reader, n) as a statement: what it returns is dropped, and
\* the "if err != nil" after it tests the err of the read before, which is nil
Ignore(at, step, n, next) ==
    /\ pc = at
    /\ InitPacketFrame
    /\ UNCHANGED <<packetHeader, c>>
    /\ LET got == IgnoreBytes(rd, n)
       IN  /\ rd' = got.r
           /\ trace' = Ran(step, got.err)
           /\ Continue(err, next)

ReadProtocolVersion == ReadNumber("ProtocolVersion", "ProtocolVersion", 1, "ServerVersion")

ReadServerVersion == ReadText("ServerVersion", "ServerVersion", "ConnectionID")

ReadConnectionID == ReadNumber("ConnectionID", "ConnectionID", 4, "ScramblePart1")

ReadScramblePart1 == ReadBlock("ScramblePart1", "ScramblePart1", 8, "Reserved")

IgnoreReserved == Ignore("Reserved", "IgnoreBytes(1) reserved", 1, "ServerCapabilitiesPart1")

ReadServerCapabilitiesPart1 ==
    ReadNumber("ServerCapabilitiesPart1", "ServerCapabilitiesPart1", 2, "ServerDefaultCollation")

ReadServerDefaultCollation ==
    ReadNumber("ServerDefaultCollation", "ServerDefaultCollation", 1, "StatusFlags")

ReadStatusFlags == ReadNumber("StatusFlags", "StatusFlags", 2, "ServerCapabilitiesPart2")

ReadServerCapabilitiesPart2 ==
    ReadNumber("ServerCapabilitiesPart2", "ServerCapabilitiesPart2", 2, "Filler")

IgnoreFiller == Ignore("Filler", "IgnoreBytes(1+6+4) filler", 1 + 6 + 4, "ScramblePart2")

ReadScramblePart2 == ReadBlock("ScramblePart2", "ScramblePart2", 12, "ScrambleEnd")

IgnoreScrambleEnd == Ignore("ScrambleEnd", "IgnoreBytes(1) scramble end", 1, "AuthenticationPluginName")

ReadAuthenticationPluginName ==
    ReadText("AuthenticationPluginName", "AuthenticationPluginName", "sendAuth")

readInitPacket ==
    \/ ReadInitHeader
    \/ ReadProtocolVersion
    \/ ReadServerVersion
    \/ ReadConnectionID
    \/ ReadScramblePart1
    \/ IgnoreReserved
    \/ ReadServerCapabilitiesPart1
    \/ ReadServerDefaultCollation
    \/ ReadStatusFlags
    \/ ReadServerCapabilitiesPart2
    \/ IgnoreFiller
    \/ ReadScramblePart2
    \/ IgnoreScrambleEnd
    \/ ReadAuthenticationPluginName

----------------------------------------------------------------------------
(* sendAuth *)

RECURSIVE Sum(_)
Sum(s) == IF s = <<>> THEN 0 ELSE Head(s) + Sum(Tail(s))

\* scramblePassword(cipher, password): empty for the empty password, else 20
\* bytes that depend on the challenge and the password.  The bytes stand for
\* SHA1(cipher ++ SHA1(SHA1(password))) XOR SHA1(password).
scramblePassword(cipher, password) ==
    IF password = <<>> THEN <<>>
    ELSE [i \in 1..20 |-> (Sum(cipher) + 7 * Sum(password) + 31 * i) % 256]

\* The packet buffer while sendAuth fills it: byteArr, pos, and whether an
\* index or a slice bound was out of range (the run-time panic of Go).

\* byteArr[b.pos] = v
SetByte(b, v) ==
    IF b.panic THEN b
    ELSE IF b.pos >= Len(b.byteArr) THEN [b EXCEPT !.panic = TRUE]
    ELSE [b EXCEPT !.byteArr[b.pos + 1] = v]

\* pos += n
Advance(b, n) == IF b.panic THEN b ELSE [b EXCEPT !.pos = b.pos + n]

\* pos += copy(byteArr[pos:], s)
Copy(b, s) ==
    IF b.panic THEN b
    ELSE IF b.pos > Len(b.byteArr) THEN [b EXCEPT !.panic = TRUE]
    ELSE LET n == Min(Len(s), Len(b.byteArr) - b.pos)
         IN  [b EXCEPT !.byteArr = [j \in 1..Len(b.byteArr) |->
                                       IF j > b.pos /\ j <= b.pos + n
                                       THEN s[j - b.pos] ELSE b.byteArr[j]],
                       !.pos = b.pos + n]

\* binary.LittleEndian.PutUint32(byteArr[pos:pos+4], v); pos += 4
PutUint32(b, v) ==
    IF b.panic THEN b
    ELSE IF b.pos + 4 > Len(b.byteArr) THEN [b EXCEPT !.panic = TRUE]
    ELSE Copy(b, LE32(v))

\* byteArr[pos] = 0x00; pos += 1
Terminate(b) == Advance(SetByte(b, 0), 1)

\* the capability flags sendAuth starts from
BaseFlags ==
    CLIENT_LONG_PASSWORD + CLIENT_PROTOCOL_41 + CLIENT_SECURE_CONNECTION
    + CLIENT_MULTI_STATEMENTS + CLIENT_MULTI_RESULTS

\* the flags written: CLIENT_CONNECT_WITH_DB is added for a database name
ClientFlags(p) ==
    IF Len(p.DBName) > 0 THEN BaseFlags + CLIENT_CONNECT_WITH_DB ELSE BaseFlags

\* byteLen: the payload length sendAuth computes; the database name and its
\* terminator are counted only for a non-empty name
ByteLen(p, password) ==
    4 + 4 + 1 + 19 + 4 + (Len(p.Username) + 1) + (1 + Len(password))
    + (IF Len(p.DBName) > 0 THEN Len(p.DBName) + 1 ELSE 0)
    + (Len(NativePassword) + 1)

\* the credential with a length byte that is always 20
PutPasswordFixedLength(b, password) == Copy(Advance(SetByte(b, 20), 1), password)

\* the credential part: byteArr[pos] = byte(len(password)); pos += 1;
\* pos += copy(byteArr[pos:], password)
PutPassword(b, password) == Copy(Advance(SetByte(b, Len(password) % 256), 1), password)

\* the database name part: copied and terminated whatever the name is
PutDBName(b, p) == Terminate(Copy(b, p.DBName))

\* sendAuth up to the Write: the buffer as it stands at the Write, or at the
\* panic
BuildAuth(p, fields) ==
    LET cipher == fields.ScramblePart1 \o fields.ScramblePart2
        password == scramblePassword(cipher, p.Password)
        clientFlags == ClientFlags(p)
        byteLen == ByteLen(p, password)
        b0 == [byteArr |-> Copy([byteArr |-> Zeros(byteLen + 4), pos |-> 0, panic |-> FALSE],
                                HeaderBytes(byteLen, 1)).byteArr,
               pos |-> 4, panic |-> FALSE]
        b1 == PutUint32(b0, clientFlags)
        b2 == PutUint32(b1, MAX_PACKET_SIZE)
        b3 == Advance(SetByte(b2, fields.ServerDefaultCollation), 1)
        b4 == Advance(Advance(b3, 19), 4)
        b5 == Terminate(Copy(b4, p.Username))
        b7 == PutPassword(b5, password)
        b8 == PutDBName(b7, p)
        b9 == Terminate(Copy(b8, NativePassword))
    IN  [ran |-> TRUE, panic |-> b9.panic, clientFlags |-> clientFlags,
         cipher |-> cipher, password |-> password, byteLen |-> byteLen,
         byteArr |-> b9.byteArr, pos |-> b9.pos]

\* sendAuth: build the packet, c.writer.Write(byteArr[0:pos]), c.writer.Flush().
\* The Write only buffers (the packet is far smaller than the writer's
\* buffer); the Flush writes to the socket and may fail.  A server that gets
\* the packet sends its answer.
sendAuth ==
    /\ pc = "sendAuth"
    /\ UNCHANGED <<param, conn, reply, c, packetHeader, resultHeader, srv, fr, orphans, other>>
    /\ LET a == BuildAuth(param, c)
       IN  /\ auth' = a
           /\ IF a.panic
              THEN /\ pc' = "panic"
                   /\ err' = "index out of range"
                   /\ trace' = Ran("sendAuth", "panic")
                   /\ UNCHANGED <<rd, wr, sent>>
              ELSE \/ /\ wr' = <<>>
                      /\ sent' = sent \o Take(a.byteArr, a.pos)
                      /\ rd' = [rd EXCEPT !.wire = rd.wire \o reply]
                      /\ trace' = Append(Ran("Write", "nil"), [step |-> "Flush", err |-> "nil"])
                      /\ Continue("nil", "readResult")
                   \/ /\ wr' = Take(a.byteArr, a.pos)
                      /\ trace' = Append(Ran("Write", "nil"),
                                         [step |-> "Flush", err |-> "write error"])
                      /\ Continue("write error", "readResult")
                      /\ UNCHANGED <<rd, sent>>

----------------------------------------------------------------------------
(* readResult *)

\* a header, then one byte; what they hold is not looked at
readResult ==
    /\ pc = "readResult"
    /\ UNCHANGED <<param, conn, wr, sent, reply, c, packetHeader, auth, srv, fr, orphans, other>>
    /\ LET h == ReadPacketHeader(rd)
           t == ReadPacket(h.r, Zeros(1))
       IN  IF h.err # "nil"
           THEN /\ rd' = h.r
                /\ resultHeader' = h.hdr
                /\ trace' = Ran("readResult header", h.err)
                /\ Continue(h.err, "returned")
           ELSE /\ rd' = t.r
                /\ resultHeader' = h.hdr
                /\ trace' = Append(Ran("readResult header", "nil"),
                                   [step |-> "readResult byte", err |-> t.err])
                /\ Continue(t.err, "returned")

Open == Dial \/ readInitPacket \/ sendAuth \/ readResult

Next == Open \/ Close

Spec == Init /\ [][Next]_vars

----------------------------------------------------------------------------
(* The packet framer applied on its own, to streams of every shape *)

\* the bytes 1, 2, ..., m: all different, none zero
Pattern(m) == [i \in 1..m |-> i]

\* lengths and sequence numbers whose headers are written and read back:
\* the ends of the range and every byte position
HeaderLengths == {0, 1, 127, 128, 255, 256, 32768, 65535, 65536, 1193046, 8388608, 16777215}

HeaderSeqs == {0, 1, 2, 128, 255}

\* two bytes of payload behind a header
Behind == <<170, 187>>

\* byte arrays handed to UnpackNumber: every byte 0, every byte 255, the sign
\* bit alone, distinct bytes, and two mixtures; each is cut to n bytes and
\* to n bytes with up to MaxExtra bytes behind them
ByteArrays ==
    {[j \in 1..(8 + MaxExtra) |-> 0],
     [j \in 1..(8 + MaxExtra) |-> 255],
     [j \in 1..(8 + MaxExtra) |-> 128],
     [j \in 1..(8 + MaxExtra) |-> j],
     [j \in 1..(8 + MaxExtra) |-> (83 * j + 170) % 256],
     [j \in 1..(8 + MaxExtra) |-> IF j % 2 = 1 THEN 255 ELSE 1]}

FramerInputs ==
    {[op |-> "ReadPacket", n |-> n, len |-> 0, seq |-> 0, src |-> Pattern(m), chunk |-> k,
      dst |-> <<>>, hdr |-> NoHeader, num |-> Zero64, err |-> "nil"] :
        n \in 1..MaxRead, m \in 0..(MaxRead + 1), k \in ChunkSizes}
    \cup
    {[op |-> "ReadPacketHeader", n |-> 4, len |-> l, seq |-> s,
      src |-> Take(HeaderBytes(l, s) \o Behind, m), chunk |-> k,
      dst |-> <<>>, hdr |-> NoHeader, num |-> Zero64, err |-> "nil"] :
        l \in HeaderLengths, s \in HeaderSeqs, m \in 0..6, k \in ChunkSizes}
    \cup
    {[op |-> "UnpackNumber", n |-> n, len |-> 0, seq |-> 0, src |-> Take(a, n + d), chunk |-> Whole,
      dst |-> <<>>, hdr |-> NoHeader, num |-> Zero64, err |-> "nil"] :
        n \in 1..8, a \in ByteArrays, d \in 0..MaxExtra}

InitFramer ==
    /\ pc = "framer"
    /\ fr \in FramerInputs
    /\ rd = [buf |-> <<>>, wire |-> Chunks(fr.src, fr.chunk)]
    /\ param \in {[DBName |-> <<>>, Username |-> <<>>, Password |-> <<>>]}
    /\ conn = "nil"
    /\ wr = <<>>
    /\ sent = <<>>
    /\ reply = <<>>
    /\ c = NoFields
    /\ packetHeader = NoHeader
    /\ resultHeader = NoHeader
    /\ auth = NoAuth
    /\ err = "nil"
    /\ trace = <<>>
    /\ srv = NoServer
    /\ orphans = 0
    /\ other = NoCaller

FramerFrame ==
    UNCHANGED <<param, conn, wr, sent, reply, c, resultHeader, auth, trace, srv, orphans, other>>

\* err = ReadPacket(rd, make([]byte, n))
ApplyReadPacket ==
    /\ pc = "framer"
    /\ fr.op = "ReadPacket"
    /\ FramerFrame
    /\ UNCHANGED packetHeader
    /\ LET got == ReadPacket(rd, Zeros(fr.n))
       IN  /\ rd' = got.r
           /\ fr' = [fr EXCEPT !.dst = got.byteArr, !.err = got.err]
           /\ err' = got.err
           /\ pc' = "framer done"

\* packetHeader, err = ReadPacketHeader(rd)
ApplyReadPacketHeader ==
    /\ pc = "framer"
    /\ fr.op = "ReadPacketHeader"
    /\ FramerFrame
    /\ LET got == ReadPacketHeader(rd)
       IN  /\ rd' = got.r
           /\ fr' = [fr EXCEPT !.dst = got.byteArr, !.hdr = got.hdr, !.err = got.err]
           /\ packetHeader' = got.hdr
           /\ err' = got.err
           /\ pc' = "framer done"

\* num := UnpackNumber(byteArr, n)
ApplyUnpackNumber ==
    /\ pc = "framer"
    /\ fr.op = "UnpackNumber"
    /\ FramerFrame
    /\ UNCHANGED <<packetHeader, rd, err>>
    /\ fr' = [fr EXCEPT !.num = UnpackNumber(fr.src, fr.n)]
    /\ pc' = "framer done"

NextFramer == ApplyReadPacket \/ ApplyReadPacketHeader \/ ApplyUnpackNumber

SpecFramer == InitFramer /\ [][NextFramer]_vars

----------------------------------------------------------------------------
(* Properties of the packet framer, under SpecFramer *)

FramerDone(op) == pc = "framer done" /\ fr.op = op

\* C1: exact-read correctness of ReadPacket.  When the stream holds at least
\* n bytes, ReadPacket on a destination of n bytes returns success with the
\* destination holding the first n bytes of the stream, in order, however
\* the stream cuts them into reads: none duplicated, skipped or left unfilled.
ReadPacketExact ==
    (FramerDone("ReadPacket") /\ Len(fr.src) >= fr.n) =>
        /\ fr.err = "nil"
        /\ fr.dst = Take(fr.src, fr.n)
        /\ Remaining(rd) = Drop(fr.src, fr.n)

\* C2: ReadPacketHeader reads exactly 4 bytes and returns the little-endian
\* value of the first 3 as the length and the 4th as the sequence; when the
\* stream has fewer than 4 bytes it fails and returns no header.
ReadPacketHeaderExact ==
    FramerDone("ReadPacketHeader") =>
        IF Len(fr.src) >= 4
        THEN /\ fr.err = "nil"
             /\ fr.hdr = [Len |-> fr.src[1] + 256 * fr.src[2] + 65536 * fr.src[3],
                          Seq |-> fr.src[4]]
             /\ Remaining(rd) = Drop(fr.src, 4)
        ELSE fr.err # "nil"

\* C8: header round-trip.  For every length and sequence number, when the
\* four bytes ReadPacketHeader decodes are the four bytes sendAuth's header
\* code writes for them (as they are whenever the header arrives in one
\* read), the header returned is that length and that sequence number.
HeaderRoundTrip ==
    (FramerDone("ReadPacketHeader") /\ Len(fr.src) >= 4) =>
        /\ fr.chunk >= 4 => fr.dst = HeaderBytes(fr.len, fr.seq)
        /\ fr.dst = HeaderBytes(fr.len, fr.seq) =>
              /\ fr.err = "nil"
              /\ fr.hdr = [Len |-> fr.len, Seq |-> fr.seq]

\* the largest length with the largest sequence number went round
HeaderRoundTripWitness ==
    /\ FramerDone("ReadPacketHeader")
    /\ fr.len = 16777215
    /\ fr.seq = 255
    /\ fr.chunk >= 4
    /\ fr.dst = <<255, 255, 255, 255>>
    /\ fr.hdr = [Len |-> 16777215, Seq |-> 255]

\* C16: for every n in 1..8 and every array of at least n bytes,
\* UnpackNumber(bytes, n) is the sum of bytes[i] * 256^i for i in 0..n-1:
\* base 256 digit i of the result is bytes[i] for i < n and 0 above (little
\* endian, nothing carried from a set top bit), whatever bytes lie at index
\* n and above.
UnpackNumberLittleEndian ==
    FramerDone("UnpackNumber") =>
        fr.num = [j \in 1..8 |-> IF j <= fr.n THEN fr.src[j] ELSE 0]

\* eight bytes with the top bit set were unpacked with a ninth behind them
UnpackNumberWitness ==
    /\ FramerDone("UnpackNumber")
    /\ fr.n = 8
    /\ Len(fr.src) > 8
    /\ fr.src[9] # 0
    /\ \A j \in 1..8 : fr.src[j] >= 128
    /\ fr.num = Take(fr.src, 8)

----------------------------------------------------------------------------
(* Properties of the session, under Spec *)

\* the steps of Open that ran, without the caller's Close calls
OpenSteps == SelectSeq(trace, LAMBDA t : t.step # "Close")

\* step s of Open has run
HasRun(s) == \E i \in DOMAIN trace : trace[i].step = s

\* step s of Open has run without error
Succeeded(s) == \E i \in DOMAIN trace : trace[i].step = s /\ trace[i].err = "nil"

\* the greeting header arrived in one read of the socket
HeaderInOneRead == srv.chunk >= 4 /\ Len(srv.bytes) >= 4

\* every read of the socket returned all the server had sent: ReadPacket's
\* loop then runs once per call, and the fault of C1 plays no part
InOneRead == srv.chunk = Whole

\* C3: sequence-violation detection.  When the packet header readInitPacket
\* read carries a sequence number other than 0, readInitPacket fails with
\* "Unexpected Sequence Number" and Open returns that error: no greeting
\* field has been read or stored, and no authentication packet is built,
\* buffered or sent.  A header that arrives in one read carries the sequence
\* number the server wrote.
SequenceViolationDetected ==
    /\ (HasRun("ReadPacketHeader") /\ HeaderInOneRead) =>
            packetHeader.Seq = srv.hdrSeq
    /\ packetHeader.Seq # 0 =>
            /\ pc \in {"returned", "panic"}
            /\ err = "Unexpected Sequence Number"
            /\ c = NoFields
            /\ Len(OpenSteps) = 2
            /\ OpenSteps[2].step = "ReadPacketHeader"
            /\ ~auth.ran
            /\ wr = <<>>
            /\ sent = <<>>

\* a greeting with sequence number 1 was refused
SequenceViolationWitness ==
    /\ srv.hdrSeq = 1
    /\ packetHeader.Seq = 1
    /\ pc = "returned"
    /\ err = "Unexpected Sequence Number"
    /\ c = NoFields
    /\ sent = <<>>

\* where sendAuth's buffer has the byte after the scrambled credential
AfterCredential == 4 + 4 + 4 + 1 + 19 + 4 + (Len(param.Username) + 1) + 1 + Len(auth.password)

\* C4: capability/database coupling in sendAuth.  CLIENT_CONNECT_WITH_DB is in
\* the flags if and only if the database name is not empty; after the
\* scrambled credential the buffer holds the name and its terminator and then
\* the plugin name and its terminator, and for an empty name nothing before
\* the plugin name.
DatabaseCoupling ==
    auth.ran =>
        /\ ((auth.clientFlags \div CLIENT_CONNECT_WITH_DB) % 2 = 1) <=> (param.DBName # <<>>)
        /\ Drop(auth.byteArr, AfterCredential) =
              IF param.DBName # <<>>
              THEN param.DBName \o <<0>> \o NativePassword \o <<0>>
              ELSE NativePassword \o <<0>>

\* C5: fail-stop handshake.  A step of Open that fails is the last step of
\* Open that runs, and Open returns that step's error.  (Stated for streams
\* that arrive in one read, and for a dial that failed.)
FailStop ==
    \A i \in DOMAIN OpenSteps :
        ((InOneRead \/ i = 1) /\ OpenSteps[i].err # "nil" /\ OpenSteps[i].err # "panic") =>
            /\ i = Len(OpenSteps)
            /\ pc \in {"returned", "panic"}
            /\ err = OpenSteps[i].err

\* C6: Close is valid from any state.  Every call of Close has returned (a
\* value or an error), and after it the socket is released.
CloseAlwaysValid ==
    \A i \in DOMAIN trace :
        trace[i].step = "Close" => (trace[i].err # "panic" /\ conn = "closed")

\* the server sent the well-formed greeting, all of it
WellFormedGreeting ==
    /\ srv.hdrSeq = 0
    /\ srv.bytes = Packet(Len(GreetingPayload(Greeting)), 0, GreetingPayload(Greeting))

\* errors of the transport and of the protocol
TransportOrProtocolErrors ==
    {"dial error", "write error", "EOF", "unexpected EOF", "Unexpected Sequence Number"}

\* C7: authentication rejection is reported.  When the server has answered
\* the authentication packet with an ERR packet and Open has read the answer,
\* Open returns an error, and not one of the transport or the protocol.
\* (Stated for a well-formed greeting and an answer that arrive in one read
\* each.)
AuthRejectionReported ==
    (/\ pc = "returned"
     /\ InOneRead
     /\ WellFormedGreeting
     /\ srv.reply = ERRPacket
     /\ HasRun("readResult header")) =>
        /\ err # "nil"
        /\ err \notin TransportOrProtocolErrors

\* C9: greeting decode.  After readInitPacket has decoded the well-formed
\* greeting, every field holds the value the server encoded (the texts
\* without their terminators), and the challenge sendAuth scrambles with is
\* challenge part 1 followed by challenge part 2.  (Stated for a greeting
\* that arrives in one read.)
GreetingDecoded ==
    (InOneRead /\ WellFormedGreeting /\ HasRun("AuthenticationPluginName")) =>
        /\ Succeeded("AuthenticationPluginName")
        /\ c = Greeting
        /\ auth.ran => auth.cipher = Greeting.ScramblePart1 \o Greeting.ScramblePart2

\* the bytes of the greeting packet as its header bounds it (stream
\* positions first..last), as far as they were sent
InPacket(first) == SubSeq(srv.bytes, first, Min(4 + srv.hdrLen, Len(srv.bytes)))

\* stream positions where the two texts of the greeting start
VersionStart == 4 + 1 + 1

PluginStart == 4 + (PluginEnd(Greeting) - Len(Greeting.AuthenticationPluginName) - 1) + 1

\* a text of the greeting has no terminator inside the packet
Unterminated ==
    /\ srv.bytes # <<>>
    /\ \/ IndexByte(InPacket(VersionStart), 0) = 0
       \/ IndexByte(InPacket(PluginStart), 0) = 0

\* C10: unterminated text is rejected.  When a text of the greeting has no
\* terminating zero byte inside the greeting packet, readInitPacket does not
\* succeed.  (Stated for a stream that arrives in one read.)
UnterminatedRejected ==
    (InOneRead /\ Unterminated) => ~Succeeded("AuthenticationPluginName")

----------------------------------------------------------------------------
(* The order of the handshake and the authentication packet, under Spec *)

\* C11: sequence numbers.  In every run where Open returns success the
\* packets exchanged carry the sequence numbers 0, 1, 2: the greeting 0, the
\* authentication response 1, the authentication result 2; a packet received
\* with another number makes Open fail.  (Stated for streams that arrive in
\* one read.)
SequenceNumbersConsecutive ==
    (InOneRead /\ pc = "returned" /\ err = "nil") =>
        /\ srv.hdrSeq = 0
        /\ packetHeader.Seq = 0
        /\ sent[4] = 1
        /\ srv.reply[4] = 2
        /\ resultHeader.Seq = 2

\* the steps of readInitPacket, after the dial, in the order of the code
GreetingSteps ==
    <<"Dial", "ReadPacketHeader", "ProtocolVersion", "ServerVersion", "ConnectionID",
      "ScramblePart1", "IgnoreBytes(1) reserved", "ServerCapabilitiesPart1",
      "ServerDefaultCollation", "StatusFlags", "ServerCapabilitiesPart2",
      "IgnoreBytes(1+6+4) filler", "ScramblePart2", "IgnoreBytes(1) scramble end",
      "AuthenticationPluginName">>

\* the positions of readInitPacket
GreetingPositions ==
    {"readInitPacket", "ProtocolVersion", "ServerVersion", "ConnectionID", "ScramblePart1",
     "Reserved", "ServerCapabilitiesPart1", "ServerDefaultCollation", "StatusFlags",
     "ServerCapabilitiesPart2", "Filler", "ScramblePart2", "ScrambleEnd",
     "AuthenticationPluginName"}

\* how often step s has run
Times(s) == Cardinality({i \in DOMAIN trace : trace[i].step = s})

\* where step s stands among the steps of Open (0 when it has not run)
StepAt(s) ==
    IF \E i \in DOMAIN OpenSteps : OpenSteps[i].step = s
    THEN CHOOSE i \in DOMAIN OpenSteps : OpenSteps[i].step = s
    ELSE 0

\* C12: handshake ordering.  Nothing is written to the transport, or to its
\* writer, before every step of readInitPacket has run without error; the
\* authentication packet is written once and flushed once, after that; the
\* socket has taken exactly that packet or nothing; the result is read only
\* after the flush has succeeded.
HandshakeOrdered ==
    /\ pc \in (GreetingPositions \cup {"idle", "sendAuth"}) =>
          sent = <<>> /\ wr = <<>> /\ ~HasRun("Write") /\ ~HasRun("Flush")
    /\ HasRun("Write") =>
          /\ StepAt("Write") = Len(GreetingSteps) + 1
          /\ \A i \in 1..Len(GreetingSteps) :
                OpenSteps[i] = [step |-> GreetingSteps[i], err |-> "nil"]
          /\ StepAt("Flush") = StepAt("Write") + 1
    /\ Times("Write") <= 1
    /\ Times("Flush") <= 1
    /\ HasRun("Flush") => HasRun("Write")
    /\ sent # <<>> <=> Succeeded("Flush")
    /\ sent \in {<<>>, Take(auth.byteArr, auth.pos)}
    /\ HasRun("readResult header") =>
          /\ Succeeded("Flush")
          /\ StepAt("readResult header") = StepAt("Flush") + 1
    /\ pc = "readResult" => Succeeded("Flush")

\* the result was read after the packet was flushed after the greeting was read
HandshakeOrderedWitness ==
    /\ pc = "returned"
    /\ err = "nil"
    /\ Len(OpenSteps) = Len(GreetingSteps) + 4
    /\ OpenSteps[Len(GreetingSteps)].step = "AuthenticationPluginName"
    /\ OpenSteps[Len(GreetingSteps) + 1].step = "Write"
    /\ OpenSteps[Len(GreetingSteps) + 2].step = "Flush"
    /\ OpenSteps[Len(GreetingSteps) + 3].step = "readResult header"
    /\ sent # <<>>

\* the payload the authentication packet is to have for parameters p, the
\* collation of the greeting and the scrambled credential: the database name
\* and its terminator only for a non-empty name
AuthPayload(p, collation, credential) ==
    LE32(BaseFlags + (IF p.DBName # <<>> THEN CLIENT_CONNECT_WITH_DB ELSE 0))
    \o LE32(MAX_PACKET_SIZE)
    \o <<collation>>
    \o Zeros(23)
    \o p.Username \o <<0>>
    \o <<Len(credential)>> \o credential
    \o (IF p.DBName # <<>> THEN p.DBName \o <<0>> ELSE <<>>)
    \o NativePassword \o <<0>>

\* C14: authentication packet framing.  For every username, password and
\* database name, empty or not, sendAuth writes a packet: a 4-byte header
\* with sequence number 1 and then exactly as many payload bytes as the
\* header states, which are the flags, the maximum packet size, the
\* collation, 23 zero bytes, the username, the credential length, the
\* credential, the database name if any, and the plugin name.
AuthPacketFramed ==
    auth.ran =>
        /\ ~auth.panic
        /\ HasRun("Write")
        /\ LET payload == AuthPayload(param, c.ServerDefaultCollation, auth.password)
           IN  Take(auth.byteArr, auth.pos) = Packet(Len(payload), 1, payload)

\* index (from 1) of the credential length byte in the packet
CredentialAt == 4 + 4 + 4 + 1 + 23 + Len(param.Username) + 1 + 1

Consumed ==
    Len(srv.bytes) + (IF Succeeded("Flush") THEN Len(srv.reply) ELSE 0) - Len(Remaining(rd))

\* C18: framing stays synchronised.  When readInitPacket has returned
\* success it has consumed 4 + Len bytes, Len being the length in the header
\* it read; when readResult has returned success too, the two have consumed
\* 4 + Len bytes each, so each header was read at a packet boundary.
\* (Stated for streams that arrive in one read.)
FramingSynchronised ==
    InOneRead =>
        /\ pc = "sendAuth" => Consumed = 4 + packetHeader.Len
        /\ (pc = "returned" /\ err = "nil") =>
              Consumed = (4 + packetHeader.Len) + (4 + resultHeader.Len)

\* C19: sendAuth stays inside its buffer.  For every username, password and
\* database name, the empty one included, no write of sendAuth is at an
\* index at or above the size allocated, byteLen + 4: sendAuth does not
\* panic, and ends at the Write with pos within the buffer.
SendAuthInBounds ==
    /\ \A i \in DOMAIN trace : trace[i] # [step |-> "sendAuth", err |-> "panic"]
    /\ auth.ran =>
          /\ Len(auth.byteArr) = auth.byteLen + 4
          /\ auth.pos <= Len(auth.byteArr)
          /\ ~auth.panic

----------------------------------------------------------------------------
(* Open called again on the same Connection, by one caller or by two *)

\* Open calls seen so far
Opens == Times("Dial")

\* the servers of these runs: one that sends the well-formed greeting and
\* one that closes the connection inside it, after challenge part 1
KnownServers ==
    {s \in ServerStreams :
        /\ s.hdrSeq = 0
        /\ s.hdrLen = Len(GreetingPayload(Greeting))
        /\ Len(s.bytes) \in {4 + s.hdrLen, 4 + VersionEnd(Greeting) + 4 + 8}}

\* Open called on a Connection that is new or that a call of Open has
\* returned on; nothing in Open looks at what c.conn holds
Redial ==
    /\ pc \in {"idle", "returned"}
    /\ Opens < MaxOpen
    /\ DialStep(KnownServers, {Whole}, {OKPacket})

OpenAgain == Redial \/ readInitPacket \/ sendAuth \/ readResult

NextReopen == OpenAgain \/ Close

SpecReopen == Init /\ [][NextReopen]_vars

\* C13: a session owns exactly one socket.  After any sequence of Open and
\* Close calls on one Connection no socket it dialed is open without being
\* the one c.conn names, the one Close releases: at most one socket is
\* unreleased, and a repeated Open has orphaned none.
OneSocketOwned ==
    /\ orphans = 0
    /\ orphans + (IF conn = "open" THEN 1 ELSE 0) <= 1

\* The scheduler lets the other caller run: the locals of the running call
\* are put aside and those of the other call are taken up.  Connection has a
\* mutex, which no function locks, so this can happen between any two steps.
Switch ==
    /\ pc # "panic"
    /\ other.switches < MaxSwitch
    /\ pc' = other.pc
    /\ err' = other.err
    /\ packetHeader' = other.packetHeader
    /\ resultHeader' = other.resultHeader
    /\ auth' = other.auth
    /\ other' = [pc |-> pc, err |-> err, packetHeader |-> packetHeader,
                 resultHeader |-> resultHeader, auth |-> auth,
                 switches |-> other.switches + 1]
    /\ UNCHANGED <<param, conn, rd, wr, sent, reply, c, trace, srv, fr, orphans>>

NextConcurrent == OpenAgain \/ Switch

SpecConcurrent == Init /\ [][NextConcurrent]_vars

\* a call of Open at position p is between its dial and its return
InOpen(p) == p \in (GreetingPositions \cup {"sendAuth", "readResult"})

\* C17: mutual exclusion.  When two callers call Open on the same
\* Connection, at most one of them is inside its handshake at any time, so
\* the steps of the two do not interleave on the reader, the writer and the
\* greeting fields.
MutualExclusion == ~(InOpen(pc) /\ InOpen(other.pc))

----------------------------------------------------------------------------
(* The example program: main of example/basic *)

\* main after conn.Open() has returned.  With an error main returns, and the
\* deferred exit(err) ends the program with os.Exit(1); conn.Close is not
\* deferred yet.  With nil, conn.Close is deferred and runs at the return,
\* before exit(err), which finds no error.  When Open panics, exit(err) finds
\* *err unassigned (nil) and the panic ends the program with status 2.
mainReturn ==
    /\ UNCHANGED <<param, rd, wr, sent, reply, c, packetHeader, resultHeader, auth, err, srv, fr,
                   orphans, other>>
    /\ \/ /\ pc = "returned"
          /\ err # "nil"
          /\ pc' = "exit 1"
          /\ UNCHANGED <<conn, trace>>
       \/ /\ pc = "returned"
          /\ err = "nil"
          /\ conn' = "closed"
          /\ trace' = Ran("Close", "nil")
          /\ pc' = "exit 0"
       \/ /\ pc = "panic"
          /\ pc' = "exit 2"
          /\ UNCHANGED <<conn, trace>>

main == Open \/ mainReturn

SpecMain == Init /\ [][main]_vars

\* C20: no socket leak in the example program.  In every run of main in
\* which the dial inside Open succeeded, the socket is closed when the
\* program exits, with status 0 after Open returned nil and with status 1
\* after Open returned an error of a later step.
NoSocketLeak ==
    (pc \in {"exit 0", "exit 1"} /\ Succeeded("Dial")) => conn = "closed"

====
